---- MODULE Spec2Model ----
(***************************************************************************)
(* gpl2col.py: conversion of a GIMP palette (.gpl) into an ArtRage palette *)
(* (.col).  A character is its Unicode code point, a line is a sequence of *)
(* code points, a byte string is a sequence of numbers in 0..255.          *)
(***************************************************************************)
EXTENDS Integers, Sequences, FiniteSets, TLC

VARIABLES pc, first, warned, eof, line, entry_count, tmp_name, tmp_hex,
          frag_name, frag_hex, accepted, opf, opens

vars == <<pc, first, warned, eof, line, entry_count, tmp_name, tmp_hex,
          frag_name, frag_hex, accepted, opf, opens>>

----------------------------------------------------------------------------
(* Characters.                                                             *)

\* \s of a str pattern, and str.strip(): the whitespace below U+0100
IsSpace(c) == c \in {9, 10, 11, 12, 13, 28, 29, 30, 31, 32, 133, 160}

\* \d, restricted to the ASCII digits
IsDigit(c) == c \in 48..57

\* the character class [\s|\d]: whitespace, the character '|' (124), a digit
InClass(c) == IsSpace(c) \/ c = 124 \/ IsDigit(c)

----------------------------------------------------------------------------
(* Helpers on sequences.                                                   *)

RECURSIVE Flatten(_)
Flatten(ss) == IF ss = <<>> THEN <<>> ELSE Head(ss) \o Flatten(Tail(ss))

\* bytes(n): n zero bytes
Zeros(n) == [i \in 1..n |-> 0]

----------------------------------------------------------------------------
(* process_entry                                                           *)

\* a run of n class characters starts at (1-based) position p of l
ClassRun(l, p, n) == /\ p + n - 1 <= Len(l)
                     /\ \A k \in p..(p + n - 1) : InClass(l[k])

\* the character at p exists and is whitespace
SpaceAt(l, p) == p <= Len(l) /\ IsSpace(l[p])

\* the ways ^[\s|\d]{1,3}\s[\s|\d]{1,3}\s[\s|\d]{1,3} matches at the start of l:
\* the lengths of the three fields
FieldLengths(l) ==
    {t \in (1..3) \X (1..3) \X (1..3) :
        /\ ClassRun(l, 1, t[1])
        /\ SpaceAt(l, t[1] + 1)
        /\ ClassRun(l, t[1] + 2, t[2])
        /\ SpaceAt(l, t[1] + t[2] + 2)
        /\ ClassRun(l, t[1] + t[2] + 3, t[3])}

\* the order in which the backtracking matcher tries the field lengths: every
\* quantifier is greedy, an earlier field gives up a character last
Preferred(t, u) == \/ t[1] > u[1]
                   \/ t[1] = u[1] /\ t[2] > u[2]
                   \/ t[1] = u[1] /\ t[2] = u[2] /\ t[3] >= u[3]

\* re.match(colour_code_pattern, line) is not None
is_valid(l) == FieldLengths(l) # {}

\* re.match(colour_code_pattern, line).group(0), for a valid line
code_raw(l) ==
    LET ways == FieldLengths(l)
        t == CHOOSE t \in ways : \A u \in ways : Preferred(t, u)
    IN  SubSeq(l, 1, t[1] + t[2] + t[3] + 2)

\* str.strip()
Strip(s) ==
    LET keep == {i \in 1..Len(s) : ~IsSpace(s[i])}
    IN  IF keep = {} THEN <<>>
        ELSE SubSeq(s, CHOOSE i \in keep : \A j \in keep : i <= j,
                       CHOOSE i \in keep : \A j \in keep : i >= j)

\* the length of the separator \s{1,3} matches at position p of s (greedy)
SepLen(s, p) ==
    IF SpaceAt(s, p + 1) THEN (IF SpaceAt(s, p + 2) THEN 3 ELSE 2) ELSE 1

\* re.split(r'\s{1,3}', s), scanning from position p with the token cur begun
RECURSIVE SplitFrom(_, _, _, _)
SplitFrom(s, p, cur, done) ==
    IF p > Len(s) THEN Append(done, cur)
    ELSE IF IsSpace(s[p])
         THEN SplitFrom(s, p + SepLen(s, p), <<>>, Append(done, cur))
         ELSE SplitFrom(s, p + 1, Append(cur, s[p]), done)

Split(s) == SplitFrom(s, 1, <<>>, <<>>)

\* int(token) raises ValueError: the token is empty or holds a non-digit
IntRaises(tok) == IF tok = <<>> THEN TRUE ELSE \E i \in 1..Len(tok) : ~IsDigit(tok[i])

\* int(token), base 10
RECURSIVE int(_)
int(tok) == IF tok = <<>> THEN 0
            ELSE 10 * int(SubSeq(tok, 1, Len(tok) - 1)) + (tok[Len(tok)] - 48)

\* entry of process_entry_hex: the stripped prefix split on whitespace
Entry(l) == Split(Strip(code_raw(l)))

\* process_entry_hex raises: IndexError (fewer than three tokens), ValueError
\* of int() or ValueError of bytearray() (a value above 255)
HexRaises(l) ==
    LET entry == Entry(l)
    IN  IF Len(entry) < 3 THEN TRUE
        ELSE IF \E i \in 1..3 : IntRaises(entry[i]) THEN TRUE
        ELSE \E i \in 1..3 : int(entry[i]) > 255

\* mutation of process_entry_hex: the channels are kept in source order
process_entry_hex_rgb(l) ==
    LET entry == Entry(l)
    IN  <<int(entry[1]), int(entry[2]), int(entry[3]), 255>>

\* process_entry_hex, when it returns
process_entry_hex(l) ==
    LET entry == Entry(l)
    IN  <<int(entry[3]), int(entry[2]), int(entry[1]), 255>>

\* c.encode('utf-8') of one character
Utf8(c) ==
    IF c < 128 THEN <<c>>
    ELSE IF c < 2048 THEN <<192 + (c \div 64), 128 + (c % 64)>>
    ELSE IF c < 65536
         THEN <<224 + (c \div 4096), 128 + ((c \div 64) % 64), 128 + (c % 64)>>
         ELSE <<240 + (c \div 262144), 128 + ((c \div 4096) % 64),
                128 + ((c \div 64) % 64), 128 + (c % 64)>>

\* line[code_len:].strip()
NameText(l) == Strip(SubSeq(l, Len(code_raw(l)) + 1, Len(l)))

\* the for loop of process_entry_name over the characters of the name
RECURSIVE NameLoop(_, _)
NameLoop(name_content, cs) ==
    IF cs = <<>> THEN name_content
    ELSE NameLoop(name_content \o <<0>> \o Utf8(Head(cs)), Tail(cs))

\* mutation of process_entry_name: name_content starts empty
process_entry_name_bare(l) == NameLoop(<<>>, NameText(l))

\* process_entry_name: name_content starts as bytearray(2)
process_entry_name(l) == NameLoop(Zeros(2), NameText(l))

----------------------------------------------------------------------------
(* process_template                                                        *)

\* bytearray.fromhex of the file header magic
FILE_MAGIC == <<65, 82, 50, 32, 67, 79, 76, 79, 82, 32, 80, 82, 69, 83, 69, 84,
                13, 10, 143>>

\* bytearray.fromhex of the name section magic
NAME_MAGIC == <<65, 82, 83, 119, 97, 116, 99, 104, 70, 105, 108, 101, 86, 101,
                114, 115, 105, 111, 110, 45, 51>>

\* bytearray.insert(i, v), i counted from 0
Insert(content, i, v) ==
    SubSeq(content, 1, i) \o <<v>> \o SubSeq(content, i + 1, Len(content))

\* mutation of Interleave: the loop runs while i <= len(content), and a 0 also
\* follows the last byte
RECURSIVE InterleaveThrough(_, _)
InterleaveThrough(content, i) ==
    IF i <= Len(content) THEN InterleaveThrough(Insert(content, i, 0), i + 2)
    ELSE content

\* while i < len(content): content.insert(i, 0); i += 2
RECURSIVE Interleave(_, _)
Interleave(content, i) ==
    IF i < Len(content) THEN Interleave(Insert(content, i, 0), i + 2)
    ELSE content

file_header_content(n) ==
    Interleave(FILE_MAGIC, 1) \o <<48, 0, 255>> \o Zeros(8) \o <<n>> \o Zeros(3)

name_header_content == Interleave(NAME_MAGIC, 1)

----------------------------------------------------------------------------
(* check_if_valid_input                                                    *)

\* 'GIMP Palette\n'
gpl_header == <<71, 73, 77, 80, 32, 80, 97, 108, 101, 116, 116, 101, 10>>

check_if_valid_input(l) == l = gpl_header

----------------------------------------------------------------------------
(* main                                                                    *)

\* no line: readline() at end of file returns '', and line is unset before the
\* first iteration of the loop
NoLine == <<>>

Init ==
    /\ pc = "start"
    /\ first = NoLine
    /\ warned = FALSE
    /\ eof = FALSE
    /\ line = NoLine
    /\ entry_count = 0
    /\ tmp_name = <<>>
    /\ tmp_hex = <<>>
    /\ frag_name = <<>>
    /\ frag_hex = <<>>
    /\ accepted = <<>>
    /\ opf = <<>>
    /\ opens = 0

\* mutation of CheckHeader: a first line that is not the marker is classified
\* and encoded like the lines that follow
CheckHeaderClassifies(F) ==
    /\ pc = "start"
    /\ \E l \in F \cup {NoLine} :
        /\ first' = l
        /\ eof' = (l = NoLine)
        /\ warned' = (check_if_valid_input(l) = FALSE)
        /\ IF check_if_valid_input(l) = FALSE /\ is_valid(l) /\ ~HexRaises(l)
           THEN /\ tmp_name' = process_entry_name(l)
                /\ tmp_hex' = process_entry_hex(l)
                /\ accepted' = <<l>>
                /\ entry_count' = 1
           ELSE /\ entry_count' = 0
                /\ UNCHANGED <<tmp_name, tmp_hex, accepted>>
    /\ pc' = "loop"
    /\ UNCHANGED <<line, frag_name, frag_hex, opf, opens>>

\* ipf.readline() and check_if_valid_input: the first line of the file, one of F
\* or '' when the file is empty, is read and only compared with the marker
CheckHeader(F) ==
    /\ pc = "start"
    /\ \E l \in F \cup {NoLine} :
        /\ first' = l
        /\ eof' = (l = NoLine)
        /\ warned' = (check_if_valid_input(l) = FALSE)
    /\ entry_count' = 0
    /\ pc' = "loop"
    /\ UNCHANGED <<line, tmp_name, tmp_hex, frag_name, frag_hex, accepted, opf, opens>>

\* mutation of Body: entry_count += 1 stands after the if, and counts every line
BodyCountsEveryLine(l) ==
    /\ line' = l
    /\ IF ~is_valid(l)
       THEN /\ frag_name' = <<>>
            /\ frag_hex' = <<>>
            /\ entry_count' = entry_count + 1
            /\ UNCHANGED <<pc, tmp_name, tmp_hex, accepted>>
       ELSE /\ frag_name' = process_entry_name(l)
            /\ tmp_name' = tmp_name \o frag_name'
            /\ IF HexRaises(l)
               THEN /\ frag_hex' = <<>>
                    /\ pc' = "crashed"
                    /\ UNCHANGED <<entry_count, tmp_hex, accepted>>
               ELSE /\ frag_hex' = process_entry_hex(l)
                    /\ tmp_hex' = tmp_hex \o frag_hex'
                    /\ entry_count' = entry_count + 1
                    /\ accepted' = Append(accepted, l)
                    /\ pc' = pc
    /\ UNCHANGED <<first, warned, eof, opf, opens>>

\* the else branch of the loop body on line l: the entry is classified, its name
\* fragment is written, then its colour fragment, then it is counted
Body(l) ==
    /\ line' = l
    /\ IF ~is_valid(l)
       THEN /\ frag_name' = <<>>
            /\ frag_hex' = <<>>
            /\ UNCHANGED <<pc, entry_count, tmp_name, tmp_hex, accepted>>
       ELSE /\ frag_name' = process_entry_name(l)
            /\ tmp_name' = tmp_name \o frag_name'
            /\ IF HexRaises(l)
               THEN /\ frag_hex' = <<>>
                    /\ pc' = "crashed"
                    /\ UNCHANGED <<entry_count, tmp_hex, accepted>>
               ELSE /\ frag_hex' = process_entry_hex(l)
                    /\ tmp_hex' = tmp_hex \o frag_hex'
                    /\ entry_count' = entry_count + 1
                    /\ accepted' = Append(accepted, l)
                    /\ pc' = pc
    /\ UNCHANGED <<first, warned, eof, opf, opens>>

\* one iteration of "for line in ipf" with entry_count <= 254: the next line of
\* the file is one of L
Loop(L) ==
    /\ pc = "loop"
    /\ ~eof
    /\ ~(entry_count > 254)
    /\ \E l \in L : Body(l)

\* mutation of Abort: the loop is left with break, not return, and the file is
\* assembled and written with lines left unread
AbortFallsThrough(L) ==
    /\ pc = "loop"
    /\ ~eof
    /\ entry_count > 254
    /\ \E l \in L : line' = l
    /\ tmp_name' = tmp_name \o Zeros(3)
    /\ opf' = file_header_content(entry_count) \o tmp_hex
              \o name_header_content \o tmp_name'
    /\ opens' = opens + 1
    /\ pc' = "done"
    /\ UNCHANGED <<first, warned, eof, entry_count, tmp_hex, frag_name,
                   frag_hex, accepted>>

\* one iteration of "for line in ipf" with entry_count > 254: the next line is
\* fetched and main returns
Abort(L) ==
    /\ pc = "loop"
    /\ ~eof
    /\ entry_count > 254
    /\ \E l \in L : line' = l
    /\ pc' = "aborted"
    /\ UNCHANGED <<first, warned, eof, entry_count, tmp_name, tmp_hex,
                   frag_name, frag_hex, accepted, opf, opens>>

\* mutation of Finish: the terminator is not added to the names
FinishNoTerminator ==
    /\ pc = "loop"
    /\ eof' = TRUE
    /\ opf' = file_header_content(entry_count) \o tmp_hex
              \o name_header_content \o tmp_name
    /\ opens' = opens + 1
    /\ pc' = "done"
    /\ UNCHANGED <<first, warned, line, entry_count, tmp_name, tmp_hex,
                   frag_name, frag_hex, accepted>>

\* the file is exhausted: the terminator is added to the names, the parts are
\* copied into tmp_main, the output file is opened and written
Finish ==
    /\ pc = "loop"
    /\ eof' = TRUE
    /\ tmp_name' = tmp_name \o Zeros(3)
    /\ opf' = file_header_content(entry_count) \o tmp_hex
              \o name_header_content \o tmp_name'
    /\ opens' = opens + 1
    /\ pc' = "done"
    /\ UNCHANGED <<first, warned, line, entry_count, tmp_hex, frag_name,
                   frag_hex, accepted>>

----------------------------------------------------------------------------
(* Inputs.                                                                 *)

\* first lines: the marker, and '2 5 2\n', which looks like an entry
FirstLines == {gpl_header, <<50, 32, 53, 32, 50, 10>>}

\* '2 5 2 a\n' (an entry), '# c\n' (no entry), '  2 5\n' (an entry of two numbers)
LimitLines == {<<50, 32, 53, 32, 50, 32, 97, 10>>,
               <<35, 32, 99, 10>>,
               <<32, 32, 50, 32, 53, 10>>}

\* the whole program on files of any length over LimitLines
Next == CheckHeader(FirstLines) \/ Loop(LimitLines) \/ Abort(LimitLines) \/ Finish

Spec == Init /\ [][Next]_vars

----------------------------------------------------------------------------
(* The driver on short files of varied lines.                              *)

\* accepted entries a bounded run reads
MaxEntries == 3

\* ' 0  0  0\tBlack\n', '255   2  25\t<e-acute><euro>\n', '5 2 5\n' (entries);
\* '# c\n' (no entry); '  2 5\n' (two numbers), '2 5 999\n' (a value above 255)
DriverLines == {<<32, 48, 32, 32, 48, 32, 32, 48, 9, 66, 108, 97, 99, 107, 10>>,
                <<50, 53, 53, 32, 32, 32, 50, 32, 32, 50, 53, 9, 233, 8364, 10>>,
                <<53, 32, 50, 32, 53, 10>>,
                <<35, 32, 99, 10>>,
                <<32, 32, 50, 32, 53, 10>>,
                <<50, 32, 53, 32, 57, 57, 57, 10>>}

\* the abort is out of reach of MaxEntries entries and is left out
LoopDriver == entry_count < MaxEntries /\ Loop(DriverLines)

NextDriver == CheckHeader(FirstLines) \/ LoopDriver \/ Finish

SpecDriver == Init /\ [][NextDriver]_vars

----------------------------------------------------------------------------
(* The entry parser on one line.                                           *)

\* characters of a short line, without its line end
MaxLen == 5

\* ' ', '2', '5', '|', 'a'
ParseChars == {32, 50, 53, 124, 97}

\* every line of at most MaxLen characters, ended by '\n' or (the last line of a
\* file) not ended
ShortLines ==
    LET bodies == UNION {[1..n -> ParseChars] : n \in 0..MaxLen}
    IN  {b \o <<10>> : b \in bodies} \cup (bodies \ {NoLine})

\* str(v), v >= 0
RECURSIVE Dec(_)
Dec(v) == IF v < 10 THEN <<48 + v>> ELSE Dec(v \div 10) \o <<48 + (v % 10)>>

\* '%3d' % v
Pad3(v) == [i \in 1..(3 - Len(Dec(v))) |-> 32] \o Dec(v)

\* the line GIMP writes for a colour: '%3d %3d %3d\t%s\n'
GplLine(r, g, b, n) ==
    Pad3(r) \o <<32>> \o Pad3(g) \o <<32>> \o Pad3(b) \o <<9>> \o n \o <<10>>

\* channel values, 300 being out of range
Channels == {0, 5, 25, 255, 300}

\* names: '', 'a', '2 a', '<e-acute><euro>', '<U+1F600>'
Names == {<<>>, <<97>>, <<50, 32, 97>>, <<233, 8364>>, <<128512>>}

GplLines == {GplLine(r, g, b, n) : r \in Channels, g \in Channels,
                                   b \in Channels, n \in Names}

ParseLines == ShortLines \cup GplLines

\* the loop runs once: the file is its first line and one line of ParseLines
LoopParse == line = NoLine /\ Loop(ParseLines)

NextParse == CheckHeader({gpl_header}) \/ LoopParse \/ Finish

SpecParse == Init /\ [][NextParse]_vars

----------------------------------------------------------------------------
(* Reference definitions the properties are stated with.                   *)

\* s with a 0 after every element: twice as long
Doubled(s) == [i \in 1..(2 * Len(s)) |-> IF i % 2 = 1 THEN s[(i + 1) \div 2] ELSE 0]

\* s with a 0 between consecutive elements, none after the last
ZeroBetween(s) ==
    [i \in 1..(2 * Len(s) - 1) |-> IF i % 2 = 1 THEN s[(i + 1) \div 2] ELSE 0]

\* the file header for n entries, byte by byte
HeaderLayout(n) ==
    ZeroBetween(FILE_MAGIC) \o <<48, 0, 255>> \o <<0, 0, 0, 0, 0, 0, 0, 0>>
    \o <<n>> \o <<0, 0, 0>>

\* the number of bytes of the UTF-8 encoding of character c
Utf8Len(c) == IF c < 128 THEN 1 ELSE IF c < 2048 THEN 2 ELSE IF c < 65536 THEN 3 ELSE 4

RECURSIVE SumLen(_)
SumLen(cs) == IF cs = <<>> THEN 0 ELSE 1 + Utf8Len(Head(cs)) + SumLen(Tail(cs))

\* every character of cs as one 0x00 byte and its UTF-8 bytes
ZeroPrefixed(cs) == Flatten([i \in 1..Len(cs) |-> <<0>> \o Utf8(cs[i])])

\* the colour and the name fragments of the accepted lines, in order
HexOf(ls) == Flatten([i \in 1..Len(ls) |-> process_entry_hex(ls[i])])
NamesOf(ls) == Flatten([i \in 1..Len(ls) |-> process_entry_name(ls[i])])

\* the maximal runs of digits of s: where they start, where the run from i ends
RunStarts(s) == {i \in 1..Len(s) : IsDigit(s[i]) /\ (i = 1 \/ ~IsDigit(s[i - 1]))}
RunEnd(s, i) ==
    CHOOSE j \in i..Len(s) :
        /\ \A k \in i..j : IsDigit(s[k])
        /\ (j = Len(s) \/ ~IsDigit(s[j + 1]))

RECURSIVE Pow10(_)
Pow10(k) == IF k = 0 THEN 1 ELSE 10 * Pow10(k - 1)

\* the digits s[i..j] read in base 10, most significant first
RECURSIVE Value(_, _, _)
Value(s, i, j) == IF i > j THEN 0 ELSE (s[i] - 48) * Pow10(j - i) + Value(s, i + 1, j)

\* the number written by the k-th run of digits of s
NumberAt(s, k) ==
    LET i == CHOOSE i \in RunStarts(s) : Cardinality({j \in RunStarts(s) : j < i}) = k - 1
    IN  Value(s, i, RunEnd(s, i))

\* n characters from p on, each a digit or a blank
FieldAt(l, p, n) == /\ p + n - 1 <= Len(l)
                    /\ \A k \in p..(p + n - 1) : IsDigit(l[k]) \/ l[k] = 32

\* the ways the start of l reads as three fields of 1 to 3 digits or blanks
\* separated by single whitespace characters
Fields(l) ==
    {t \in (1..3) \X (1..3) \X (1..3) :
        /\ FieldAt(l, 1, t[1])
        /\ SpaceAt(l, t[1] + 1)
        /\ FieldAt(l, t[1] + 2, t[2])
        /\ SpaceAt(l, t[1] + t[2] + 2)
        /\ FieldAt(l, t[1] + t[2] + 3, t[3])}

\* a field read in base 10, its blanks left out (0 when all blank)
RECURSIVE FieldValue(_, _, _, _)
FieldValue(l, p, n, v) ==
    IF n = 0 THEN v
    ELSE FieldValue(l, p + 1, n - 1, IF l[p] = 32 THEN v ELSE 10 * v + (l[p] - 48))

\* the loop has run on line and classified it as an entry
Classified == line # NoLine /\ pc # "aborted" /\ is_valid(line)

----------------------------------------------------------------------------
(* Properties of the whole program (Spec).                                 *)

\* C1: the driver aborts only when the input holds more than 255 accepted
\* entries: the line whose fetch triggers the abort is a 256th accepted entry,
\* never a line that matches no entry
C1_AbortOnlyOn256thEntry == pc = "aborted" => is_valid(line)

\* C2: every magic byte, the last included, is followed by an inserted 0x00:
\* 38 bytes before the trailer 0x30 0x00 0xFF, a 42 byte name preamble, a file
\* header of 53 bytes with the count byte at offset 49
C2_EveryByteFollowedByZero ==
    pc = "done" =>
        /\ SubSeq(opf, 1, 38) = Doubled(FILE_MAGIC)
        /\ SubSeq(opf, 39, 41) = <<48, 0, 255>>
        /\ opf[49 + 1] = entry_count
        /\ SubSeq(opf, 53 + 4 * entry_count + 1, 53 + 4 * entry_count + 42)
               = Doubled(NAME_MAGIC)

\* C2, amended: a 0x00 is inserted between consecutive magic bytes and none
\* after the last: 37 bytes before the trailer, a 41 byte name preamble, a file
\* header of 37+3+8+1+3 = 52 bytes with the count byte at offset 48
C2_ZeroBetweenBytes ==
    pc = "done" =>
        /\ SubSeq(opf, 1, 37) = ZeroBetween(FILE_MAGIC)
        /\ SubSeq(opf, 38, 40) = <<48, 0, 255>>
        /\ SubSeq(opf, 41, 48) = <<0, 0, 0, 0, 0, 0, 0, 0>>
        /\ opf[48 + 1] = entry_count
        /\ SubSeq(opf, 50, 52) = <<0, 0, 0>>
        /\ SubSeq(opf, 52 + 4 * entry_count + 1, 52 + 4 * entry_count + 41)
               = ZeroBetween(NAME_MAGIC)
        /\ opf[52 + 4 * entry_count + 41] = 51

\* a file of 255 entries is written with the count byte 255
C2_Witness == pc = "done" /\ entry_count = 255 /\ opf[48 + 1] = 255

\* C8: the output is opened and written at most once, only when every line has
\* been consumed; until then, and after an abort or a failure in an entry, it
\* has not been opened and holds nothing of this run
C8_OutputWrittenOnceAtEnd ==
    /\ opens <= 1
    /\ (opens = 1 => pc = "done" /\ eof /\ opf # <<>>)
    /\ (pc \in {"start", "loop", "aborted", "crashed"} => opens = 0 /\ opf = <<>>)

\* the run has aborted on the count and the output is untouched
C8_Witness == pc = "aborted" /\ entry_count = 255 /\ opens = 0 /\ opf = <<>>

----------------------------------------------------------------------------
(* Properties of the driver on varied lines (SpecDriver).                  *)

\* C6: between iterations and in the written file, the colour fragments, the
\* name fragments and entry_count correspond one to one: the i-th of each comes
\* from the i-th accepted line, in input order; the count byte of the output is
\* the number of 4 byte colour records and of name fragments
C6_Correspondence ==
    pc \in {"loop", "done"} =>
        /\ Len(accepted) = entry_count
        /\ Len(tmp_hex) = 4 * entry_count
        /\ tmp_hex = HexOf(accepted)
        /\ tmp_name = NamesOf(accepted) \o (IF pc = "done" THEN <<0, 0, 0>> ELSE <<>>)
        /\ pc = "done" =>
            /\ opf[48 + 1] = Len(accepted)
            /\ Len(opf) = 52 + 4 * Len(accepted) + 41 + Len(NamesOf(accepted)) + 3

\* two different entries have been accepted and a line has been skipped
C6_Witness ==
    /\ pc = "loop"
    /\ entry_count = 2
    /\ accepted[1] # accepted[2]
    /\ ~is_valid(line)

\* C7: a completed run of n accepted entries writes exactly the file header
\* carrying n, the n colour fragments in input order (4*n bytes), the name
\* preamble, the n name fragments in input order and one 3 byte zero terminator;
\* with n = 0 the colour table is empty and the name table is the terminator
C7_Assembly ==
    pc = "done" =>
        /\ opf = HeaderLayout(entry_count) \o HexOf(accepted)
                 \o ZeroBetween(NAME_MAGIC) \o NamesOf(accepted) \o <<0, 0, 0>>
        /\ Len(HexOf(accepted)) = 4 * entry_count
        /\ entry_count = 0 =>
               opf = HeaderLayout(0) \o ZeroBetween(NAME_MAGIC) \o <<0, 0, 0>>

\* a file of two different entries is complete
C7_Witness == pc = "done" /\ Len(accepted) = 2 /\ accepted[1] # accepted[2]

\* C10: the first line is only compared with the marker: a warning is given iff
\* it differs, no fragment and no count derives from it, entries come from the
\* second line on (no line of DriverLines is a line of FirstLines)
C10_FirstLineNotAnEntry ==
    /\ pc # "start" => warned = (first # gpl_header)
    /\ line = NoLine => entry_count = 0 /\ tmp_hex = <<>> /\ accepted = <<>>
    /\ pc = "loop" /\ line = NoLine => tmp_name = <<>>
    /\ \A i \in 1..Len(accepted) : accepted[i] # first

\* the first line looked like an entry, a warning was given, and the written
\* file holds the one entry that followed it
C10_Witness ==
    /\ pc = "done"
    /\ is_valid(first)
    /\ warned
    /\ entry_count = 1
    /\ opf[48 + 1] = 1

----------------------------------------------------------------------------
(* Properties of the entry parser (SpecParse).                             *)

\* C3: the name fragment of an entry is only, for each character of the trimmed
\* name, a 0x00 byte and the character's UTF-8 bytes; its length is the sum of
\* (1 + UTF-8 length); an empty name gives no byte
C3_OnlyZeroPrefixedCharacters ==
    Classified =>
        /\ frag_name = ZeroPrefixed(NameText(line))
        /\ Len(frag_name) = SumLen(NameText(line))

\* C3, amended: the name fragment is two 0x00 bytes followed by, for each
\* character of the trimmed name, a 0x00 byte and the character's UTF-8 bytes;
\* its length is 2 + the sum of (1 + UTF-8 length); an empty name gives 2 bytes
C3_TwoZerosThenCharacters ==
    /\ Classified =>
        /\ frag_name = <<0, 0>> \o ZeroPrefixed(NameText(line))
        /\ Len(frag_name) = 2 + SumLen(NameText(line))
    /\ Len(line) >= 13 =>
        \A r \in Channels, g \in Channels, b \in Channels, n \in Names :
            line = GplLine(r, g, b, n) =>
                /\ frag_name = <<0, 0>> \o ZeroPrefixed(n)
                /\ Len(frag_name) = 2 + SumLen(n)

\* the name of two characters of 2 and 3 UTF-8 bytes is encoded in 2+3+4 bytes
C3_Witness ==
    /\ line = GplLine(0, 5, 25, <<233, 8364>>)
    /\ frag_name = <<0, 0, 0, 195, 169, 0, 226, 130, 172>>

\* C4: a line starting with three fields of 1 to 3 digits or blanks separated
\* by single whitespace characters is accepted, and exactly three integers are
\* recovered: the fields read left to right in base 10, blanks left out
C4_FieldsRecovered ==
    (line # NoLine /\ Fields(line) # {}) =>
        /\ is_valid(line)
        /\ Len(Entry(line)) = 3
        /\ \A i \in 1..3 : ~IntRaises(Entry(line)[i])
        /\ \E t \in Fields(line) :
            /\ int(Entry(line)[1]) = FieldValue(line, 1, t[1], 0)
            /\ int(Entry(line)[2]) = FieldValue(line, t[1] + 2, t[2], 0)
            /\ int(Entry(line)[3]) = FieldValue(line, t[1] + t[2] + 3, t[3], 0)

\* C5: when the three integers R, G, B of an entry are in 0..255 the colour
\* fragment is the 4 bytes B, G, R, 255, whatever the name: R, G, B are the
\* first three numbers of the matched prefix, and the channels of a line GIMP
\* wrote
C5_ColourIsBGR255 ==
    /\ frag_hex # <<>> =>
        /\ Cardinality(RunStarts(code_raw(line))) >= 3
        /\ frag_hex = <<NumberAt(code_raw(line), 3), NumberAt(code_raw(line), 2),
                        NumberAt(code_raw(line), 1), 255>>
    /\ Len(line) >= 13 =>
        \A r \in Channels, g \in Channels, b \in Channels, n \in Names :
            (line = GplLine(r, g, b, n) /\ r <= 255 /\ g <= 255 /\ b <= 255) =>
                frag_hex = <<b, g, r, 255>>

\* a colour of three different channels, its name starting with a digit
C5_Witness ==
    /\ line = GplLine(255, 5, 25, <<50, 32, 97>>)
    /\ frag_hex = <<25, 5, 255, 255>>

\* C9: the matched prefix of every accepted line splits into exactly three
\* non-empty tokens of digits, and the colour encoding does not fail when every
\* run of digits of the line is at most 255
C9_AcceptedLinesEncode ==
    Classified =>
        /\ Len(Entry(line)) = 3
        /\ \A i \in 1..3 : ~IntRaises(Entry(line)[i])
        /\ (\A i \in RunStarts(line) : Value(line, i, RunEnd(line, i)) <= 255)
               => pc # "crashed"

====
